---- MODULE Spec2Model ----
(***************************************************************************)
(* Opentrons proxy-viscometer protocols.                                   *)
(*                                                                         *)
(* Two parts are modelled:                                                 *)
(*  - the per-well record (c_info) and the helper functions of             *)
(*    OT2_ViscometerProtocol_AC.py that read and write it, including       *)
(*    get_concentration and custom_aspirate (specification SpecWell);      *)
(*  - the command stream that run() of OT2_ViscometerProtocol_test.py and  *)
(*    of OT2_ViscometerProtocol_AC.py sends to the robot (specification    *)
(*    Spec, and FairSpec for termination).                                 *)
(*                                                                         *)
(* Numbers.  The well record holds integers (volumes in uL, lengths in     *)
(* mm).  Concentrations are exact rationals [n, d]; an uncertainty, which  *)
(* the code computes as sqrt(q) * concentration, is kept exactly as the    *)
(* signed root [s, q] = s * sqrt(q).  Depths of the test script are in     *)
(* micrometres so that adepth = disp_vol/1000 * 9/5 mm is an integer.      *)
(* Python's floats are modelled by these exact numbers: rounding, inf and  *)
(* nan are left out.                                                       *)
(*                                                                         *)
(* Names.  The AC script calls its helpers through the names bb and cp,    *)
(* which the file never binds.  bb.f and cp.custom_aspirate are read as    *)
(* the functions f and custom_aspirate of the same file;                   *)
(* cp.custom_touch_tip and cp.custom_dispense have no definition in the    *)
(* source and are modelled by the single robot command their call site     *)
(* asks for.  run() of the AC script never calls initiate_well: the record *)
(* of the well it aspirates from is taken as set up beforehand.            *)
(***************************************************************************)
EXTENDS Integers, Sequences, FiniteSets, TLC

VARIABLES
    info,           \* well._geometry.custom_well_info of the well in use
    call,           \* the helper call that ran last, with the record before it
    ret,            \* what that call returned
    out,            \* the warnings that call printed
    asp,            \* the pipette.aspirate that call issued
    script,         \* which protocol file run() belongs to
    no_of_samples,  \* run's parameter no_of_samples
    fr,             \* fr_arr[0] (test script)
    trans_vol,      \* trans_vol (AC script)
    tip_length,     \* tip length of the loaded tip rack
    samples_ran,    \* run's counter samples_ran
    i,              \* run's index i into fr_arr
    depth,          \* run's depth (test script), micrometres
    adepth,         \* run's adepth (test script), micrometres
    e,              \* index of the enclosing range(3) loop
    k,              \* position inside the current block of statements
    pc,             \* run's control position
    paused,         \* protocol.pause() is waiting for the operator
    iters,          \* iterations of the sample loop started so far
    log             \* the robot commands issued so far, and the resumes

vars == <<info, call, ret, out, asp, script, no_of_samples, fr, trans_vol,
          tip_length, samples_ran, i, depth, adepth, e, k, pc, paused, iters,
          log>>

wellVars == <<info, call, ret, out, asp>>
runVars == <<script, no_of_samples, fr, trans_vol, tip_length, samples_ran, i,
             depth, adepth, e, k, pc, paused, iters, log>>

(***************************************************************************)
(* Bounds of the model.                                                    *)
(***************************************************************************)
MaxConstituents == 2   \* set_constituent is not called on a longer list
MaxDeficit == 2        \* custom_aspirate is not called below this deficit
MaxSamples == 3        \* largest no_of_samples tried

(***************************************************************************)
(* Exact arithmetic.                                                       *)
(***************************************************************************)
Abs(x) == IF x < 0 THEN -x ELSE x

Sign(x) == IF x < 0 THEN -1 ELSE IF x = 0 THEN 0 ELSE 1

RECURSIVE GCD(_, _)
GCD(a, b) == IF b = 0 THEN a ELSE GCD(b, a % b)

\* the rational n/d (d # 0) in lowest terms with a positive denominator
Rat(n, d) ==
    LET g == GCD(Abs(n), Abs(d))
    IN  [n |-> (Sign(d) * n) \div g, d |-> Abs(d) \div g]

RAdd(a, b) == Rat(a.n * b.d + b.n * a.d, a.d * b.d)
RMul(a, b) == Rat(a.n * b.n, a.d * b.d)
RLeq(a, b) == a.n * b.d <= b.n * a.d

\* sqrt(q) * c for rationals q >= 0 and c, as the signed root s * sqrt(q * c^2)
RootTimes(q, c) ==
    LET p == RMul(q, RMul(c, c))
    IN  [s |-> IF p.n = 0 THEN 0 ELSE Sign(c.n), q |-> p]

\* x <= y for signed roots
SLeq(x, y) ==
    \/ x.s < y.s
    \/ x.s = y.s /\ x.s = 0
    \/ x.s = y.s /\ x.s = 1 /\ RLeq(x.q, y.q)
    \/ x.s = y.s /\ x.s = -1 /\ RLeq(y.q, x.q)

ZeroRat == Rat(0, 1)
ZeroRoot == [s |-> 0, q |-> ZeroRat]

(***************************************************************************)
(* Python dictionaries.                                                    *)
(***************************************************************************)
EmptyDict == [x \in {} |-> 0]

Put(d, key, v) == [x \in (DOMAIN d) \cup {key} |-> IF x = key THEN v ELSE d[x]]

(***************************************************************************)
(* The inputs of the helper functions.                                     *)
(***************************************************************************)
\* The pairs (v_given_h, h_given_v) a caller hands to initiate_well: a well
\* of depth D and cross-section A (uL per mm), read off exactly, read off
\* with out-of-range values clamped, or with a coarse volume scale that makes
\* the two functions no inverses of each other.
VHFunctions ==
    { [D |-> 5, A |-> 1, clamp |-> FALSE],
      [D |-> 5, A |-> 1, clamp |-> TRUE],
      [D |-> 5, A |-> 2, clamp |-> FALSE] }

\* the pair handed over for a well of the 96-well plate (AC script)
PlateVH == [D |-> 10, A |-> 50, clamp |-> FALSE]

Clamp(x, lo, hi) == IF x < lo THEN lo ELSE IF x > hi THEN hi ELSE x

h_given_v(f, v) ==
    IF f.clamp THEN Clamp(f.D - (v \div f.A), 0, f.D) ELSE f.D - (v \div f.A)

v_given_h(f, h) ==
    IF f.clamp THEN Clamp((f.D - h) * f.A, 0, f.D * f.A) ELSE (f.D - h) * f.A

WellDepths == {5}                  \* well._geometry._depth
Volumes == {0, 5, 10}              \* arguments of set_volume
Headrooms == {2, 6}                \* arguments of set_headroom
Names == {"a", "b"}                \* constituent names queried
Tracked == {"a"}                   \* constituent names registered
\* (concentration, c_uncertainty, v_uncertainty) of set_constituent
Stocks ==
    { [c |-> 2, cu |-> 1, vu |-> 1],
      [c |-> 3, cu |-> 0, vu |-> 0] }
\* (random, systematic) volume uncertainties written into the record
VolumeUncertainties ==
    { [random |-> 0, systematic |-> 0],
      [random |-> 1, systematic |-> 1] }
TransferVolumes == {0, 1, 3}       \* transfer_volume of custom_aspirate
ImmersionDepths == {0, 2}          \* immersion_depth of custom_aspirate
SafetyHeights == {0, 6}            \* safety_height of custom_aspirate
TipLengths == {5, 10}              \* tip_length of the tip rack

(***************************************************************************)
(* The well record and its helpers (OT2_ViscometerProtocol_AC.py).         *)
(***************************************************************************)
\* before initiate_well the well has no custom_well_info attribute
Unset == [unset |-> TRUE]

Initiated(c_info) == c_info # Unset

\* initiate_well(well, volume_function)
initiate_well(geometry_depth, volume_function) ==
    [ constituents_number |-> 0,
      volume |-> 0,
      headroom |-> geometry_depth,
      vh_functions |-> volume_function,
      volume_uncertainty |-> [random |-> 0, systematic |-> 0],
      constituents |-> << >>,
      concentrations_stock |-> EmptyDict,
      concentration_uncertainty_stock |-> EmptyDict,
      volume_stock |-> EmptyDict,
      volume_uncertainty_stock |-> EmptyDict ]

get_h_from_v(c_info, volume) == h_given_v(c_info.vh_functions, volume)

get_v_from_h(c_info, headroom) == v_given_h(c_info.vh_functions, headroom)

\* set_headroom that forgets to convert the headroom into a volume
set_headroom_stale(c_info, headroom) == [c_info EXCEPT !.headroom = headroom]

set_headroom(c_info, headroom) ==
    [c_info EXCEPT !.headroom = headroom,
                   !.volume = get_v_from_h(c_info, headroom)]

\* set_volume that forgets to convert the volume into a headroom
set_volume_stale(c_info, volume) == [c_info EXCEPT !.volume = volume]

set_volume(c_info, volume) ==
    [c_info EXCEPT !.volume = volume,
                   !.headroom = get_h_from_v(c_info, volume)]

get_volume(c_info) == c_info.volume

get_headroom(c_info) == c_info.headroom

set_constituent(c_info, constituent, concentration, c_uncertainty, v_uncertainty) ==
    [c_info EXCEPT
        !.constituents_number = @ + 1,
        !.constituents = Append(@, constituent),
        !.concentrations_stock = Put(@, constituent, concentration),
        !.concentration_uncertainty_stock = Put(@, constituent, c_uncertainty),
        !.volume_stock = Put(@, constituent, get_volume(c_info)),
        !.volume_uncertainty_stock = Put(@, constituent, v_uncertainty)]

\* the well record rewritten with other volume uncertainties (set_c_info)
set_volume_uncertainty(c_info, u) == [c_info EXCEPT !.volume_uncertainty = u]

\* get_concentration without its try/except: the KeyError escapes
get_concentration_uncaught(c_info, constituent) ==
    [ret |-> [kind |-> "KeyError"], out |-> << >>]

\* get_concentration(well, constituent): what it returns and what it prints
get_concentration(c_info, constituent) ==
    IF \/ constituent \notin DOMAIN c_info.volume_stock
       \/ constituent \notin DOMAIN c_info.concentrations_stock
       \/ constituent \notin DOMAIN c_info.concentration_uncertainty_stock
       \/ constituent \notin DOMAIN c_info.volume_uncertainty_stock
    THEN \* except KeyError
         [ret |-> [kind |-> "value", concentration |-> ZeroRat,
                   low_c_unc |-> ZeroRoot, high_c_unc |-> ZeroRoot],
          out |-> <<"constituent not present">>]
    ELSE LET stock_volume == c_info.volume_stock[constituent]
             corrected_well_volume ==
                 get_volume(c_info) + c_info.volume_uncertainty.systematic
             well_volume_unc == c_info.volume_uncertainty.random
             stock_concentration == c_info.concentrations_stock[constituent]
             stock_c_unc == c_info.concentration_uncertainty_stock[constituent]
             stock_v_unc == c_info.volume_uncertainty_stock[constituent]
         IN  IF \/ corrected_well_volume = 0
                \/ stock_concentration = 0
                \/ stock_volume = 0
             THEN [ret |-> [kind |-> "ZeroDivisionError"], out |-> << >>]
             ELSE LET stock_ratio == Rat(stock_volume, corrected_well_volume)
                      concentration ==
                          RMul(stock_ratio, Rat(stock_concentration, 1))
                      c_term == Rat(stock_c_unc * stock_c_unc,
                                    stock_concentration * stock_concentration)
                      w_term == Rat(well_volume_unc * well_volume_unc,
                                    corrected_well_volume * corrected_well_volume)
                      v_term == Rat(stock_v_unc * stock_v_unc,
                                    stock_volume * stock_volume)
                      low_c_unc_pc2 == RAdd(c_term, w_term)
                      high_c_unc_pc2 == RAdd(v_term, RAdd(c_term, w_term))
                  IN  [ret |-> [kind |-> "value",
                                concentration |-> concentration,
                                low_c_unc |-> RootTimes(low_c_unc_pc2, concentration),
                                high_c_unc |-> RootTimes(high_c_unc_pc2, concentration)],
                       out |-> << >>]

\* 0.8*tip_length (tip lengths are multiples of 5 mm, so this is exact)
TipReach(tip) == (8 * tip) \div 10

\* custom_aspirate's first clamp: stay safety_height above the well bottom
LowVolumeClamp(depth_to_aspirate, well_depth, safety_height) ==
    IF depth_to_aspirate > well_depth - safety_height
    THEN well_depth - safety_height
    ELSE depth_to_aspirate

\* the second clamp measured from the well top instead of the meniscus
SubmersionClampFromTop(depth_to_aspirate, tip, initial_headroom) ==
    IF depth_to_aspirate > TipReach(tip) THEN TipReach(tip) ELSE depth_to_aspirate

\* custom_aspirate's second clamp: do not submerge the tip
SubmersionClamp(depth_to_aspirate, tip, initial_headroom) ==
    IF depth_to_aspirate > TipReach(tip) + initial_headroom
    THEN TipReach(tip) + initial_headroom
    ELSE depth_to_aspirate

\* custom_aspirate's last clamp: not above the top of the well
TopClamp(depth_to_aspirate) ==
    IF depth_to_aspirate < 0 THEN 0 ELSE depth_to_aspirate

\* custom_aspirate(pipette, transfer_volume, location, immersion_depth,
\* safety_height, rate): the record it leaves, what it prints and the
\* pipette.aspirate it issues
custom_aspirate(c_info, transfer_volume, immersion_depth, safety_height, tip) ==
    IF ~(transfer_volume > 0 /\ safety_height >= 0)
    THEN [raised |-> "AssertionError", info |-> c_info, out |-> << >>,
          asp |-> [issued |-> FALSE]]
    ELSE LET initial_volume == get_volume(c_info)
             final_volume == initial_volume - transfer_volume
             initial_headroom == get_headroom(c_info)
             final_headroom == get_h_from_v(c_info, final_volume)
             d0 == final_headroom + immersion_depth
             info1 == set_headroom(c_info, final_headroom)
             well_depth == get_h_from_v(info1, 0)
             d1 == LowVolumeClamp(d0, well_depth, safety_height)
             d2 == SubmersionClamp(d1, tip, initial_headroom)
             d3 == TopClamp(d2)
         IN  [raised |-> "none",
              info |-> info1,
              out |-> (IF d1 # d0 THEN <<"aspiration height too low">> ELSE << >>)
                      \o (IF d2 # d1 THEN <<"aspiration depth below tip length">>
                                     ELSE << >>),
              asp |-> [issued |-> TRUE, volume |-> transfer_volume, depth |-> d3,
                       computed |-> d0]]

(***************************************************************************)
(* Calls of the helpers on one well (specification SpecWell).              *)
(***************************************************************************)
NoCall == [op |-> "none"]
NoRet == [kind |-> "none"]
NoAsp == [issued |-> FALSE]

\* run() has not been entered: the values its variables have in SpecWell
RunIdle ==
    /\ script = "lib" /\ no_of_samples = 0 /\ fr = 0 /\ trans_vol = 0
    /\ tip_length = 0 /\ samples_ran = 0 /\ i = 0 /\ depth = 0 /\ adepth = 0
    /\ e = 0 /\ k = 0 /\ pc = "lib" /\ paused = FALSE /\ iters = 0
    /\ log = << >>

InitWell ==
    /\ info = Unset
    /\ call = NoCall /\ ret = NoRet /\ out = << >> /\ asp = NoAsp
    /\ RunIdle

InitiateWell ==
    \E d \in WellDepths, f \in VHFunctions :
        /\ info' = initiate_well(d, f)
        /\ call' = [op |-> "initiate_well", before |-> info]
        /\ ret' = NoRet /\ out' = << >> /\ asp' = NoAsp
        /\ UNCHANGED runVars

SetVolume ==
    \E v \in Volumes :
        /\ Initiated(info)
        /\ info' = set_volume(info, v)
        /\ call' = [op |-> "set_volume", volume |-> v, before |-> info]
        /\ ret' = NoRet /\ out' = << >> /\ asp' = NoAsp
        /\ UNCHANGED runVars

SetHeadroom ==
    \E h \in Headrooms :
        /\ Initiated(info)
        /\ info' = set_headroom(info, h)
        /\ call' = [op |-> "set_headroom", headroom |-> h, before |-> info]
        /\ ret' = NoRet /\ out' = << >> /\ asp' = NoAsp
        /\ UNCHANGED runVars

SetVolumeUncertainty ==
    \E u \in VolumeUncertainties :
        /\ Initiated(info)
        /\ info' = set_volume_uncertainty(info, u)
        /\ call' = [op |-> "set_c_info", before |-> info]
        /\ ret' = NoRet /\ out' = << >> /\ asp' = NoAsp
        /\ UNCHANGED runVars

SetConstituent ==
    \E c \in Tracked, s \in Stocks :
        /\ Initiated(info)
        /\ Len(info.constituents) < MaxConstituents
        /\ info' = set_constituent(info, c, s.c, s.cu, s.vu)
        /\ call' = [op |-> "set_constituent", constituent |-> c, stock |-> s,
                    before |-> info]
        /\ ret' = NoRet /\ out' = << >> /\ asp' = NoAsp
        /\ UNCHANGED runVars

GetConcentration ==
    \E c \in Names :
        /\ Initiated(info)
        /\ info' = info
        /\ call' = [op |-> "get_concentration", constituent |-> c,
                    before |-> info]
        /\ ret' = get_concentration(info, c).ret
        /\ out' = get_concentration(info, c).out
        /\ asp' = NoAsp
        /\ UNCHANGED runVars

CustomAspirate ==
    \E tv \in TransferVolumes, imm \in ImmersionDepths,
       sh \in SafetyHeights, tip \in TipLengths :
        /\ Initiated(info)
        /\ get_volume(info) - tv >= -MaxDeficit
        /\ LET r == custom_aspirate(info, tv, imm, sh, tip)
           IN  /\ info' = r.info
               /\ call' = [op |-> "custom_aspirate", transfer_volume |-> tv,
                           immersion_depth |-> imm, safety_height |-> sh,
                           tip_length |-> tip, before |-> info]
               /\ ret' = [kind |-> r.raised]
               /\ out' = r.out
               /\ asp' = r.asp
        /\ UNCHANGED runVars

NextWell ==
    \/ InitiateWell
    \/ SetVolume
    \/ SetHeadroom
    \/ SetVolumeUncertainty
    \/ SetConstituent
    \/ GetConcentration
    \/ CustomAspirate

SpecWell == InitWell /\ [][NextWell]_vars

(***************************************************************************)
(* run(): the robot commands of the two protocol files.                    *)
(***************************************************************************)
\* position lists of the test script
res_letter_list == <<"A", "B">>
well_letter_list == <<"A", "B">>
\* position lists of the AC script
tube_rack_list == <<"A1", "A2", "A3", "A4", "B1", "B2", "B3", "B4">>
well_plate_list == <<"A", "B", "C", "D", "E", "F", "G", "H">>
well_ind_list == <<"1", "2", "3", "4", "5", "6", "7", "8", "9", "10", "11", "12">>
\* Python's str(n) for the column numbers used
Str(n) == well_ind_list[n]

\* values of fr_arr[0] tried in the test script (30 is the one in the file)
FlowRates == {10, 30, 130}
\* values of trans_vol tried in the AC script (100 is the one in the file)
TransVols == {100, 300, 700}
\* the record of the plate well the AC script aspirates from; run() itself
\* never calls initiate_well, so the record is whatever was set up before
PlateWells == { set_volume(initiate_well(10, PlateVH), 400) }

\* the largest volume the p300_single_gen2 pipette of both scripts holds (uL)
p300_max_volume == 300

\* depth of a tube of the reservoir rack, 55.55 mm, in micrometres
TubeDepth == 5555 * 10

asptime == 5
disptime == 5
len_fr_arr == 1
\* depth = -80 and top(10) of the test script, in micrometres
InitialDepth == -80 * 1000
DispenseHeight == 10 * 1000

\* one robot command: the call, the source line that issues it, the labware
\* and well it names (or the pipette is over), the offset from the well top,
\* the volume and the seconds
Cmd(op, line, labware, well, z, volume, seconds) ==
    [op |-> op, line |-> line, labware |-> labware, well |-> well, z |-> z,
     volume |-> volume, seconds |-> seconds]

Delay(line, seconds) == Cmd("delay", line, "none", "", 0, 0, seconds)
Pause(line) == Cmd("pause", line, "none", "", 0, 0, 0)

\* the aspiration delay waits 20 s whatever the volume
AspDelayFlat(asp_vol) == 20

\* the aspiration delay chosen by the if/elif/else after the aspirate
AspDelay(asp_vol) ==
    IF asp_vol <= 100 THEN 10
    ELSE IF 100 < asp_vol /\ asp_vol <= 600 THEN 20
    ELSE 30

\* adepth = (disp_vol/1000.0) * (9/5) mm, in micrometres
AdepthFor(disp_vol) == (disp_vol * 9) \div 5

\* the dummy pass with the fluid dispensed where line 94 says it would be
TestDummyBodyWithFluid(s, d) ==
    << Cmd("move_to", 79, "reservoir", res_letter_list[s + 1] \o "1", d, 0, 0),
       Delay(80, 10),
       Cmd("touch_tip", 86, "reservoir", res_letter_list[s + 1] \o "1", 0, 0, 0),
       Cmd("move_to", 89, "plate", well_letter_list[s + 1] \o "1", 0, 0, 0),
       Delay(90, 5),
       Cmd("touch_tip", 91, "plate", well_letter_list[s + 1] \o "1", 0, 0, 0),
       Cmd("dispense", 94, "plate", well_letter_list[s + 1] \o "1", 0, 0, 0),
       Cmd("move_to", 92, "reservoir", res_letter_list[s + 1] \o "1", 0, 0, 0),
       Pause(97),
       Cmd("touch_tip", 98, "reservoir", res_letter_list[s + 1] \o "1", -10 * 1000, 0, 0) >>

\* test script, lines 79-98: one pass of the dummy run for sample s
TestDummyBody(s, d) ==
    << Cmd("move_to", 79, "reservoir", res_letter_list[s + 1] \o "1", d, 0, 0),
       Delay(80, 10),
       Cmd("touch_tip", 84, "reservoir", res_letter_list[s + 1] \o "1", -10 * 1000, 0, 0),
       Cmd("touch_tip", 84, "reservoir", res_letter_list[s + 1] \o "1", -10 * 1000, 0, 0),
       Cmd("touch_tip", 85, "reservoir", res_letter_list[s + 1] \o "1", -1 * 1000, 0, 0),
       Cmd("touch_tip", 86, "reservoir", res_letter_list[s + 1] \o "1", 0, 0, 0),
       Cmd("move_to", 89, "plate", well_letter_list[s + 1] \o "1", 0, 0, 0),
       Delay(90, 5),
       Cmd("touch_tip", 91, "plate", well_letter_list[s + 1] \o "1", 0, 0, 0),
       Cmd("move_to", 92, "reservoir", res_letter_list[s + 1] \o "1", 0, 0, 0),
       Pause(97),
       Cmd("touch_tip", 98, "reservoir", res_letter_list[s + 1] \o "1", -10 * 1000, 0, 0) >>

\* test script, lines 113-144: a trial after its aspirate, for sample s and
\* flow rate f
TestTrialBody(s, f) ==
    << Delay(113, AspDelay(f * asptime)),
       Cmd("touch_tip", 123, "reservoir", res_letter_list[s + 1] \o "1", -10 * 1000, 0, 0),
       Cmd("touch_tip", 123, "reservoir", res_letter_list[s + 1] \o "1", -10 * 1000, 0, 0),
       Cmd("touch_tip", 124, "reservoir", res_letter_list[s + 1] \o "1", -1 * 1000, 0, 0),
       Cmd("touch_tip", 125, "reservoir", res_letter_list[s + 1] \o "1", 0, 0, 0),
       Cmd("dispense", 130, "plate", well_letter_list[s + 1] \o "1", DispenseHeight,
           f * disptime, 0),
       Cmd("touch_tip", 131, "plate", well_letter_list[s + 1] \o "1", 0, 0, 0),
       Cmd("move_to", 132, "reservoir", res_letter_list[s + 1] \o "4", 0, 0, 0),
       Pause(135),
       Cmd("dispense", 139, "reservoir", res_letter_list[s + 1] \o "1", 0, 1000, 0),
       Delay(140, 20),
       Cmd("aspirate", 141, "reservoir", res_letter_list[s + 1] \o "1", 0, 400, 0),
       Delay(142, 10),
       Cmd("dispense", 143, "reservoir", res_letter_list[s + 1] \o "1", 0, 400, 0),
       Cmd("touch_tip", 144, "reservoir", res_letter_list[s + 1] \o "1", -10 * 1000, 0, 0) >>

\* test script, lines 161-175: one pass of the closing dummy run
TestFinalBody(s, d) ==
    << Cmd("move_to", 161, "reservoir", res_letter_list[s + 1] \o "1", d, 0, 0),
       Delay(162, 10),
       Cmd("touch_tip", 165, "reservoir", res_letter_list[s + 1] \o "1", -8 * 1000, 0, 0),
       Cmd("touch_tip", 165, "reservoir", res_letter_list[s + 1] \o "1", -8 * 1000, 0, 0),
       Cmd("touch_tip", 166, "reservoir", res_letter_list[s + 1] \o "1", -1 * 1000, 0, 0),
       Cmd("touch_tip", 167, "reservoir", res_letter_list[s + 1] \o "1", 0, 0, 0),
       Cmd("move_to", 170, "plate", well_letter_list[s + 1] \o "1", 0, 0, 0),
       Delay(171, 5),
       Cmd("touch_tip", 172, "plate", well_letter_list[s + 1] \o "1", 0, 0, 0),
       Cmd("move_to", 173, "reservoir", res_letter_list[s + 1] \o "1", 0, 0, 0),
       Pause(174),
       Cmd("touch_tip", 175, "reservoir", res_letter_list[s + 1] \o "1", -10 * 1000, 0, 0) >>

\* cp.custom_touch_tip(pipette, well, radius_offset, depth, speed, increments):
\* a tip-wiping pass on the well, at the given depth
custom_touch_tip(line, labware, well, d) ==
    Cmd("touch_tip", line, labware, well, d, 0, 0)

\* cp.custom_dispense(pipette, transfer_volume, location, ...): a dispense at
\* the location it is handed
custom_dispense(line, labware, well, transfer_volume) ==
    Cmd("dispense", line, labware, well, 0, transfer_volume, 0)

\* AC script, lines 339-360: the dummy run, before the sample loop
ACDummyBody(s) ==
    << Cmd("set_rail_lights", 339, "none", "", 0, 0, 0),
       Cmd("pick_up_tip", 344, "tiprack", "", 0, 0, 0),
       Cmd("move_to", 347, "reservoir", tube_rack_list[s + 1], 0, 0, 0),
       Delay(348, 2),
       custom_touch_tip(350, "reservoir", tube_rack_list[s + 1], -10),
       Cmd("move_to", 353, "plate", well_plate_list[s + 1] \o well_ind_list[1], 0, 0, 0),
       Delay(354, 2),
       Cmd("move_to", 357, "reservoir", tube_rack_list[s + 1], 0, 0, 0),
       Pause(358),
       custom_touch_tip(360, "reservoir", tube_rack_list[s + 1], -10) >>

\* the trial with the pause taken before the move back over the reservoir
ACTrialBodyPauseFirst(s, t, v) ==
    << Delay(378, AspDelay(v)),
       Cmd("touch_tip", 387, "reservoir", tube_rack_list[s + 1], -10, 0, 0),
       Cmd("dispense", 390, "name", well_plate_list[s + 1] \o well_ind_list[t + 1],
           0, v, 0),
       Delay(393, 10),
       Pause(396),
       Cmd("move_to", 395, "reservoir", tube_rack_list[s + 1], 0, 0, 0) >>

\* AC script, lines 378-396: trial t of sample s after its aspirate; the
\* dispense is handed the bare well name, not a well of a labware
ACTrialBody(s, t, v) ==
    << Delay(378, AspDelay(v)),
       custom_touch_tip(387, "reservoir", tube_rack_list[s + 1], -10),
       custom_dispense(390, "name", well_plate_list[s + 1] \o well_ind_list[t + 1], v),
       Delay(393, 10),
       Cmd("move_to", 395, "reservoir", tube_rack_list[s + 1], 0, 0, 0),
       Pause(396) >>

\* a command goes out: it is logged with the sample and the trial (the index
\* of the enclosing range(3) loop) it belongs to
Issue(c) ==
    /\ log' = Append(log, [op |-> c.op, line |-> c.line, labware |-> c.labware,
                           well |-> c.well, z |-> c.z, volume |-> c.volume,
                           seconds |-> c.seconds, sample |-> samples_ran,
                           trial |-> e])
    /\ paused' = (c.op = "pause")

InitRun ==
    /\ script \in {"test", "AC"}
    /\ no_of_samples \in 1..MaxSamples
    /\ fr \in (IF script = "test" THEN FlowRates ELSE {10})
    /\ trans_vol \in (IF script = "AC" THEN TransVols ELSE {0})
    /\ tip_length \in (IF script = "AC" THEN TipLengths ELSE {0})
    /\ info \in (IF script = "AC" THEN PlateWells ELSE {Unset})
    /\ call = NoCall /\ ret = NoRet /\ out = << >> /\ asp = NoAsp
    /\ samples_ran = 0
    /\ i = 0
    /\ adepth = 0
    /\ depth = (IF script = "test" THEN InitialDepth ELSE -50)
    /\ e = 0
    /\ k = 1
    /\ pc = (IF script = "test" THEN "loop" ELSE "ac_dummy")
    /\ paused = FALSE
    /\ iters = 0
    /\ log = << >>

\* test script, lines 66-69
TestLoop ==
    /\ script = "test" /\ pc = "loop" /\ ~paused
    /\ IF samples_ran < no_of_samples
       THEN /\ i' = 0
            /\ iters' = iters + 1
            /\ pc' = "pickup"
       ELSE /\ pc' = "done"
            /\ UNCHANGED <<i, iters>>
    /\ UNCHANGED <<wellVars, script, no_of_samples, fr, trans_vol, tip_length,
                   samples_ran, depth, adepth, e, k, paused, log>>

\* test script, line 72
TestPickUp ==
    /\ script = "test" /\ pc = "pickup" /\ ~paused
    /\ Issue(Cmd("pick_up_tip", 72, "tiprack", "A" \o Str(samples_ran + 1), 0, 0, 0))
    /\ pc' = "dummy" /\ e' = 0 /\ k' = 1
    /\ UNCHANGED <<wellVars, script, no_of_samples, fr, trans_vol, tip_length,
                   samples_ran, i, depth, adepth, iters>>

\* test script, lines 75-98; res_letter_list[samples_ran] raises IndexError
\* when the list has no such entry
TestDummy ==
    /\ script = "test" /\ pc = "dummy" /\ ~paused
    /\ IF samples_ran + 1 > Len(res_letter_list)
       THEN /\ pc' = "IndexError"
            /\ UNCHANGED <<e, k, log, paused>>
       ELSE /\ Issue(TestDummyBody(samples_ran, depth)[k])
            /\ IF k < Len(TestDummyBody(samples_ran, depth))
               THEN k' = k + 1 /\ UNCHANGED <<e, pc>>
               ELSE IF e < 2
                    THEN e' = e + 1 /\ k' = 1 /\ UNCHANGED pc
                    ELSE pc' = "dummy_blow" /\ k' = 0 /\ UNCHANGED e
    /\ UNCHANGED <<wellVars, script, no_of_samples, fr, trans_vol, tip_length,
                   samples_ran, i, depth, adepth, iters>>

\* test script, lines 99-100
TestDummyBlow ==
    /\ script = "test" /\ pc = "dummy_blow" /\ ~paused
    /\ Issue(Cmd("blow_out", 100, "reservoir", res_letter_list[samples_ran + 1] \o "1",
                 0, 0, 0))
    /\ IF k + 1 < 10
       THEN k' = k + 1 /\ UNCHANGED <<pc, e>>
       ELSE pc' = "aspirate" /\ e' = 0 /\ k' = 1
    /\ UNCHANGED <<wellVars, script, no_of_samples, fr, trans_vol, tip_length,
                   samples_ran, i, depth, adepth, iters>>

\* the depth is not lowered before the aspirate
NextDepthKept(d, a) == d

\* test script, line 105: depth -= adepth
NextDepth(d, a) == d - a

\* test script, lines 103-108
TestAspirate ==
    /\ script = "test" /\ pc = "aspirate" /\ ~paused
    /\ depth' = NextDepth(depth, adepth)
    /\ Issue(Cmd("aspirate", 108, "reservoir", res_letter_list[samples_ran + 1] \o "1",
                 depth', fr * asptime, 0))
    /\ pc' = "trial" /\ k' = 1
    /\ UNCHANGED <<wellVars, script, no_of_samples, fr, trans_vol, tip_length,
                   samples_ran, i, adepth, e, iters>>

\* test script, lines 113-144
TestTrial ==
    /\ script = "test" /\ pc = "trial" /\ ~paused
    /\ Issue(TestTrialBody(samples_ran, fr)[k])
    /\ IF k < Len(TestTrialBody(samples_ran, fr))
       THEN k' = k + 1 /\ UNCHANGED pc
       ELSE pc' = "blow" /\ k' = 0
    /\ UNCHANGED <<wellVars, script, no_of_samples, fr, trans_vol, tip_length,
                   samples_ran, i, depth, adepth, e, iters>>

\* test script, lines 145-146
TestBlowOut ==
    /\ script = "test" /\ pc = "blow" /\ ~paused
    /\ Issue(Cmd("blow_out", 146, "reservoir", res_letter_list[samples_ran + 1] \o "1",
                 0, 0, 0))
    /\ IF k + 1 < 10
       THEN k' = k + 1 /\ UNCHANGED pc
       ELSE pc' = "adepth" /\ k' = 0
    /\ UNCHANGED <<wellVars, script, no_of_samples, fr, trans_vol, tip_length,
                   samples_ran, i, depth, adepth, e, iters>>

\* test script, lines 149-150, and the end of the range(3) loop of line 103
TestAdepth ==
    /\ script = "test" /\ pc = "adepth" /\ ~paused
    /\ adepth' = AdepthFor(fr * disptime)
    /\ IF e < 2
       THEN e' = e + 1 /\ pc' = "aspirate"
       ELSE pc' = "flow_end" /\ UNCHANGED e
    /\ UNCHANGED <<wellVars, script, no_of_samples, fr, trans_vol, tip_length,
                   samples_ran, i, depth, k, paused, iters, log>>

\* test script, lines 152-156
TestFlowEnd ==
    /\ script = "test" /\ pc = "flow_end" /\ ~paused
    /\ i' = i + 1
    /\ IF i + 1 = len_fr_arr
       THEN pc' = "final" /\ e' = 0 /\ k' = 1
       ELSE pc' = "next" /\ UNCHANGED <<e, k>>
    /\ UNCHANGED <<wellVars, script, no_of_samples, fr, trans_vol, tip_length,
                   samples_ran, depth, adepth, paused, iters, log>>

\* test script, lines 158-175
TestFinal ==
    /\ script = "test" /\ pc = "final" /\ ~paused
    /\ Issue(TestFinalBody(samples_ran, depth)[k])
    /\ IF k < Len(TestFinalBody(samples_ran, depth))
       THEN k' = k + 1 /\ UNCHANGED <<e, pc>>
       ELSE IF e < 2
            THEN e' = e + 1 /\ k' = 1 /\ UNCHANGED pc
            ELSE pc' = "final_blow" /\ k' = 0 /\ UNCHANGED e
    /\ UNCHANGED <<wellVars, script, no_of_samples, fr, trans_vol, tip_length,
                   samples_ran, i, depth, adepth, iters>>

\* test script, lines 176-177
TestFinalBlow ==
    /\ script = "test" /\ pc = "final_blow" /\ ~paused
    /\ Issue(Cmd("blow_out", 177, "reservoir", res_letter_list[samples_ran + 1] \o "1",
                 0, 0, 0))
    /\ IF k + 1 < 10
       THEN k' = k + 1 /\ UNCHANGED pc
       ELSE pc' = "drop" /\ k' = 0
    /\ UNCHANGED <<wellVars, script, no_of_samples, fr, trans_vol, tip_length,
                   samples_ran, i, depth, adepth, e, iters>>

\* test script, line 178
TestDropTip ==
    /\ script = "test" /\ pc = "drop" /\ ~paused
    /\ Issue(Cmd("drop_tip", 178, "trash", "", 0, 0, 0))
    /\ pc' = "next"
    /\ UNCHANGED <<wellVars, script, no_of_samples, fr, trans_vol, tip_length,
                   samples_ran, i, depth, adepth, e, k, iters>>

\* the sample counter skips a sample
NextSampleSkip(n) == n + 2

\* samples_ran += 1
NextSample(n) == n + 1

\* test script, lines 180-181
TestNextSample ==
    /\ script = "test" /\ pc = "next" /\ ~paused
    /\ samples_ran' = NextSample(samples_ran)
    /\ depth' = InitialDepth
    /\ pc' = "loop"
    /\ UNCHANGED <<wellVars, script, no_of_samples, fr, trans_vol, tip_length,
                   i, adepth, e, k, paused, iters, log>>

\* the operator resumes a paused protocol
Resume ==
    /\ paused
    /\ paused' = FALSE
    /\ log' = Append(log, [op |-> "resume", line |-> 0, labware |-> "none",
                           well |-> "", z |-> 0, volume |-> 0, seconds |-> 0,
                           sample |-> samples_ran, trial |-> e])
    /\ UNCHANGED <<wellVars, script, no_of_samples, fr, trans_vol, tip_length,
                   samples_ran, i, depth, adepth, e, k, pc, iters>>

\* AC script, lines 339-360
ACDummy ==
    /\ script = "AC" /\ pc = "ac_dummy" /\ ~paused
    /\ Issue(ACDummyBody(samples_ran)[k])
    /\ IF k < Len(ACDummyBody(samples_ran))
       THEN k' = k + 1 /\ UNCHANGED pc
       ELSE pc' = "ac_dummy_blow" /\ k' = 0
    /\ UNCHANGED <<wellVars, script, no_of_samples, fr, trans_vol, tip_length,
                   samples_ran, i, depth, adepth, e, iters>>

\* AC script, lines 361-362
ACDummyBlow ==
    /\ script = "AC" /\ pc = "ac_dummy_blow" /\ ~paused
    /\ Issue(Cmd("blow_out", 362, "reservoir", tube_rack_list[samples_ran + 1], 0, 0, 0))
    /\ IF k + 1 < 15
       THEN k' = k + 1 /\ UNCHANGED pc
       ELSE pc' = "ac_loop" /\ k' = 0
    /\ UNCHANGED <<wellVars, script, no_of_samples, fr, trans_vol, tip_length,
                   samples_ran, i, depth, adepth, e, iters>>

\* AC script, lines 366-367
ACLoop ==
    /\ script = "AC" /\ pc = "ac_loop" /\ ~paused
    /\ IF samples_ran < no_of_samples
       THEN /\ iters' = iters + 1
            /\ e' = 0
            /\ pc' = "ac_pickup"
       ELSE /\ pc' = "done"
            /\ UNCHANGED <<e, iters>>
    /\ UNCHANGED <<wellVars, script, no_of_samples, fr, trans_vol, tip_length,
                   samples_ran, i, depth, adepth, k, paused, log>>

\* AC script, lines 368-372
ACPickUp ==
    /\ script = "AC" /\ pc = "ac_pickup" /\ ~paused
    /\ Issue(Cmd("pick_up_tip", 368, "tiprack", "", 0, 0, 0))
    /\ pc' = "ac_aspirate"
    /\ UNCHANGED <<wellVars, script, no_of_samples, fr, trans_vol, tip_length,
                   samples_ran, i, depth, adepth, e, k, iters>>

\* the well the aspirate is meant for: the reservoir tube of the sample
ACAspirateFromReservoir(s) == [labware |-> "reservoir", well |-> tube_rack_list[s + 1]]

\* AC script, line 374: location = plate[tube_rack_list[samples_ran]]
ACAspirateLocation(s) == [labware |-> "plate", well |-> tube_rack_list[s + 1]]

\* AC script, line 374: custom_aspirate with immersion_depth 3 and
\* safety_height 5, issuing pipette.aspirate at location.top(-depth)
ACAspirate ==
    /\ script = "AC" /\ pc = "ac_aspirate" /\ ~paused
    /\ LET r == custom_aspirate(info, trans_vol, 3, 5, tip_length)
           loc == ACAspirateLocation(samples_ran)
       IN  /\ info' = r.info
           /\ call' = [op |-> "custom_aspirate", transfer_volume |-> trans_vol,
                       immersion_depth |-> 3, safety_height |-> 5,
                       tip_length |-> tip_length, before |-> info]
           /\ ret' = [kind |-> r.raised]
           /\ out' = r.out
           /\ asp' = r.asp
           /\ Issue(Cmd("aspirate", 374, loc.labware, loc.well, -r.asp.depth,
                        trans_vol, 0))
    /\ pc' = "ac_trial" /\ k' = 1
    /\ UNCHANGED <<script, no_of_samples, fr, trans_vol, tip_length,
                   samples_ran, i, depth, adepth, e, iters>>

\* AC script, lines 378-396
ACTrial ==
    /\ script = "AC" /\ pc = "ac_trial" /\ ~paused
    /\ Issue(ACTrialBody(samples_ran, e, trans_vol)[k])
    /\ IF k < Len(ACTrialBody(samples_ran, e, trans_vol))
       THEN k' = k + 1 /\ UNCHANGED pc
       ELSE pc' = "ac_blow" /\ k' = 0
    /\ UNCHANGED <<wellVars, script, no_of_samples, fr, trans_vol, tip_length,
                   samples_ran, i, depth, adepth, e, iters>>

\* AC script, lines 397-398
ACBlowOut ==
    /\ script = "AC" /\ pc = "ac_blow" /\ ~paused
    /\ Issue(Cmd("blow_out", 398, "reservoir", tube_rack_list[samples_ran + 1], 0, 0, 0))
    /\ IF k + 1 < 15
       THEN k' = k + 1 /\ UNCHANGED pc
       ELSE pc' = "ac_drop" /\ k' = 0
    /\ UNCHANGED <<wellVars, script, no_of_samples, fr, trans_vol, tip_length,
                   samples_ran, i, depth, adepth, e, iters>>

\* AC script, line 400, and the end of the range(3) loop of line 367
ACDropTip ==
    /\ script = "AC" /\ pc = "ac_drop" /\ ~paused
    /\ Issue(Cmd("drop_tip", 400, "trash", "", 0, 0, 0))
    /\ IF e < 2
       THEN e' = e + 1 /\ pc' = "ac_pickup"
       ELSE pc' = "ac_next" /\ UNCHANGED e
    /\ UNCHANGED <<wellVars, script, no_of_samples, fr, trans_vol, tip_length,
                   samples_ran, i, depth, adepth, k, iters>>

\* AC script, line 403
ACNextSample ==
    /\ script = "AC" /\ pc = "ac_next" /\ ~paused
    /\ samples_ran' = NextSample(samples_ran)
    /\ pc' = "ac_loop"
    /\ UNCHANGED <<wellVars, script, no_of_samples, fr, trans_vol, tip_length,
                   i, depth, adepth, e, k, paused, iters, log>>

Next ==
    \/ TestLoop
    \/ TestPickUp
    \/ TestDummy
    \/ TestDummyBlow
    \/ TestAspirate
    \/ TestTrial
    \/ TestBlowOut
    \/ TestAdepth
    \/ TestFlowEnd
    \/ TestFinal
    \/ TestFinalBlow
    \/ TestDropTip
    \/ TestNextSample
    \/ ACDummy
    \/ ACDummyBlow
    \/ ACLoop
    \/ ACPickUp
    \/ ACAspirate
    \/ ACTrial
    \/ ACBlowOut
    \/ ACDropTip
    \/ ACNextSample
    \/ Resume

Spec == InitRun /\ [][Next]_vars

\* run() is the only thread and the operator resumes every pause: a step
\* that can be taken is taken
FairSpec == InitRun /\ [][Next]_vars /\ WF_vars(Next)

(***************************************************************************)
(* Properties of run() (checked under Spec and FairSpec).                  *)
(***************************************************************************)
Last == log[Len(log)]

\* the aspirate that opens a measurement trial and the dispense that is
\* weighed (test script lines 108 and 130, AC script lines 374 and 390)
MeasureAspirate(c) == c.op = "aspirate" /\ c.line \in {108, 374}
MeasuredDispense(c) == c.op = "dispense" /\ c.line \in {130, 390}

\* the statements of the dummy run and of the measurement trials
DummyLines == IF script = "test" THEN 72..100 ELSE 339..362
TrialLines == IF script = "test" THEN 103..150 ELSE 367..400

\* the lists have a position for every sample that is asked for
ListsAllow == script = "test" => no_of_samples <= Len(res_letter_list)

Count(P(_)) == Cardinality({j \in DOMAIN log : P(log[j])})

IsPause(c) == c.op = "pause"
Pauses == Count(IsPause)

\* C1 (as claimed): every measurement aspirate draws from a tube of the
\* reservoir rack and every measured dispense goes to a well of the plate.
C1_ReservoirToPlate ==
    Len(log) > 0 =>
        /\ MeasureAspirate(Last) => Last.labware = "reservoir"
        /\ MeasuredDispense(Last) => Last.labware = "plate"

\* run() has returned after no_of_samples iterations of the sample loop
RunReturned ==
    /\ pc = "done" /\ ~paused
    /\ iters = no_of_samples
    /\ samples_ran = no_of_samples
    /\ Pauses = (IF script = "test" THEN 9 * no_of_samples
                                    ELSE 1 + 3 * no_of_samples)
    /\ no_of_samples = 1 => Pauses = (IF script = "test" THEN 9 ELSE 4)

TrialStep(st, c) ==
    IF st = -1 THEN -1
    ELSE IF MeasureAspirate(c) THEN (IF st = 0 THEN 1 ELSE -1)
    ELSE IF MeasuredDispense(c) THEN (IF st = 3 THEN 4 ELSE -1)
    ELSE IF c.op \in {"aspirate", "dispense"} THEN (IF st = 6 THEN 6 ELSE -1)
    ELSE IF c.op = "delay" THEN (IF st = 0 THEN -1 ELSE IF st = 1 THEN 2 ELSE st)
    ELSE IF c.op = "touch_tip" THEN (IF st < 2 THEN -1 ELSE IF st = 2 THEN 3 ELSE st)
    ELSE IF c.op = "move_to" /\ c.labware = "reservoir" THEN (IF st = 4 THEN 5 ELSE st)
    ELSE IF c.op = "pause" THEN (IF st = 5 THEN 6 ELSE -1)
    ELSE IF c.op = "blow_out" THEN (IF st = 6 THEN 6 ELSE -1)
    ELSE st

RECURSIVE TrialStage(_, _)
TrialStage(seq, n) == IF n = 0 THEN 0 ELSE TrialStep(TrialStage(seq, n - 1), seq[n])

\* the commands issued so far by trial t of sample s
InTrial(s, t, c) == c.sample = s /\ c.trial = t /\ c.line \in TrialLines
TrialCmds(s, t) == SelectSeq(log, LAMBDA c : InTrial(s, t, c))
StageOf(s, t) == TrialStage(TrialCmds(s, t), Len(TrialCmds(s, t)))

\* the measurement aspirates of sample s
AspiratesOf(s) == {j \in DOMAIN log : MeasureAspirate(log[j]) /\ log[j].sample = s}

C8_SettlingDelay ==
    /\ (Len(log) > 1 /\ MeasureAspirate(log[Len(log) - 1])) =>
          LET v == log[Len(log) - 1].volume
          IN  /\ Last.op = "delay"
              /\ v <= 100 => Last.seconds = 10
              /\ (100 < v /\ v <= 600) => Last.seconds = 20
              /\ v > 600 => Last.seconds = 30
              /\ (script = "AC" /\ trans_vol = 100) => (v = 100 /\ Last.seconds = 10)
              /\ (script = "test" /\ fr = 30) => (v = 150 /\ Last.seconds = 20)
    /\ (Len(log) > 0 /\ MeasureAspirate(Last)) => pc \in {"trial", "ac_trial"}

\* a measurement aspirate of more than 600 uL was followed by its 30 s delay
C8_Witness ==
    /\ Len(log) > 1
    /\ MeasureAspirate(log[Len(log) - 1])
    /\ log[Len(log) - 1].volume > 600
    /\ Last.op = "delay" /\ Last.seconds = 30

\* the commands before the last one that belong to the dummy run of the
\* last command's sample (the AC script has one dummy run, before the loop)
DummyBefore(op) ==
    {j \in 1..(Len(log) - 1) :
        /\ log[j].op = op
        /\ log[j].line \in DummyLines
        /\ script = "test" => log[j].sample = Last.sample}

\* liquid handled before the last command, for the same sample
LiquidBefore ==
    {j \in 1..(Len(log) - 1) :
        /\ log[j].op \in {"aspirate", "dispense"}
        /\ script = "test" => log[j].sample = Last.sample}

\* C9: the dummy run handles no liquid: nothing is aspirated or dispensed
\* from pick_up_tip to the end of the dummy run's blow-outs, and every
\* aspirate comes after the dummy run's pauses were resumed and its
\* blow-outs issued.
C9_DummyRunDry ==
    Len(log) > 0 =>
        /\ Last.line \in DummyLines =>
              /\ Last.op \notin {"aspirate", "dispense"}
              /\ LiquidBefore = {}
        /\ Last.op \in {"aspirate", "dispense"} =>
              /\ Cardinality(DummyBefore("pause"))
                    = (IF script = "test" THEN 3 ELSE 1)
              /\ Cardinality(DummyBefore("blow_out"))
                    = (IF script = "test" THEN 10 ELSE 15)
              /\ \A j \in DummyBefore("pause") : log[j + 1].op = "resume"

\* the first aspirate of the second sample of the test script went out
C9_Witness ==
    /\ Len(log) > 0
    /\ script = "test"
    /\ MeasureAspirate(Last) /\ Last.sample = 1 /\ Last.trial = 0

\* C10 (as claimed): in the test script, for no_of_samples 1 or 2, the k-th
\* measurement aspirate of every sample is at -80 mm - (k-1)*adepth, where
\* adepth = disp_vol/1000 * 9/5 mm.
C10_AspirateDepths ==
    (Len(log) > 0 /\ script = "test" /\ ListsAllow /\ MeasureAspirate(Last)) =>
        Last.z = InitialDepth - Last.trial * ((fr * disptime * 9) \div 5)

(***************************************************************************)
(* Properties of the well helpers (checked under SpecWell).                *)
(***************************************************************************)
Min(a, b) == IF a < b THEN a ELSE b
Max(a, b) == IF a > b THEN a ELSE b

Range(seq) == {seq[j] : j \in DOMAIN seq}

ZeroTriple ==
    [kind |-> "value", concentration |-> ZeroRat, low_c_unc |-> ZeroRoot,
     high_c_unc |-> ZeroRoot]

\* C2 (as claimed): whenever get_concentration computes a result, the low
\* uncertainty estimate it returns is at most the high estimate.
C2_LowAtMostHigh ==
    (call.op = "get_concentration" /\ ret.kind = "value")
        => SLeq(ret.low_c_unc, ret.high_c_unc)

\* C3: get_concentration for a constituent that set_constituent never
\* registered on the well returns (0, 0, 0), prints the warning and leaves
\* the well record as it was.
C3_UntrackedQuery ==
    (/\ call.op = "get_concentration"
     /\ call.constituent \notin Range(call.before.constituents))
        => /\ ret = ZeroTriple
           /\ Len(out) = 1
           /\ info = call.before

\* an untracked constituent was queried on a well that tracks another one
C3_Witness ==
    /\ call.op = "get_concentration"
    /\ call.constituent \notin Range(call.before.constituents)
    /\ Len(call.before.constituents) > 0

\* the quantities custom_aspirate's clamps compare, from the call's
\* arguments and the record before the call
AspComputed ==
    h_given_v(call.before.vh_functions,
              call.before.volume - call.transfer_volume)
        + call.immersion_depth
AspBottomLimit ==
    h_given_v(call.before.vh_functions, 0) - call.safety_height
AspTipLimit == TipReach(call.tip_length) + call.before.headroom
AspPassed == call.op = "custom_aspirate" /\ ret.kind = "none"

C5_SettersConvert ==
    /\ call.op = "set_volume" =>
          /\ info.volume = call.volume
          /\ info.headroom = h_given_v(info.vh_functions, call.volume)
    /\ call.op = "set_headroom" =>
          /\ info.headroom = call.headroom
          /\ info.volume = v_given_h(info.vh_functions, call.headroom)
    /\ call.op \in {"set_volume", "set_headroom"} =>
          \/ info.headroom = h_given_v(info.vh_functions, info.volume)
          \/ info.volume = v_given_h(info.vh_functions, info.headroom)

\* set_volume ran on a record whose headroom it had to change
C5_Witness ==
    /\ call.op = "set_volume"
    /\ call.before.headroom # info.headroom
    /\ call.before.volume # info.volume

\* the constituent queried is one that set_constituent registered
QueryTracked ==
    /\ call.op = "get_concentration"
    /\ call.constituent \in Range(call.before.constituents)

\* C11: set_constituent records the stock concentration c and the well
\* volume V0 of the moment of registration, no other helper touches them,
\* and get_concentration of a registered constituent returns the
\* concentration c * V0 / (V + s), V the current well volume and s the
\* systematic volume uncertainty, also for a well registered while empty.
C11_ConcentrationFormula ==
    /\ call.op = "set_constituent" =>
          /\ info.concentrations_stock[call.constituent] = call.stock.c
          /\ info.volume_stock[call.constituent] = call.before.volume
    /\ (call.op \notin {"none", "initiate_well", "set_constituent"}) =>
          /\ info.concentrations_stock = call.before.concentrations_stock
          /\ info.volume_stock = call.before.volume_stock
    /\ QueryTracked =>
          /\ ret.kind = "value"
          /\ LET c == call.before.concentrations_stock[call.constituent]
                 V0 == call.before.volume_stock[call.constituent]
                 V == call.before.volume
                 sys == call.before.volume_uncertainty.systematic
             IN  /\ V + sys # 0
                 /\ ret.concentration = Rat(c * V0, V + sys)

\* the volumes and headrooms a well of the model can be asked about
VolumeRange == (0 - MaxDeficit - 1) .. 11
HeadroomRange == -6 .. 8

\* v_given_h and h_given_v of the pair f undo each other
MutualInverses(f) ==
    /\ \A v \in VolumeRange : v_given_h(f, h_given_v(f, v)) = v
    /\ \A h \in HeadroomRange : h_given_v(f, v_given_h(f, h)) = h

TipsHeldBefore(j) ==
    Cardinality({m \in 1..(j - 1) : log[m].op = "pick_up_tip"})
        - Cardinality({m \in 1..(j - 1) : log[m].op = "drop_tip"})

NeedsTip(c) == c.op \in {"aspirate", "dispense", "touch_tip", "blow_out"}

\* C13: in both scripts pick_up_tip is issued only with no tip on the
\* pipette, drop_tip only with one, every aspirate, dispense, touch-tip and
\* blow-out with a tip held, and no tip is attached when run has returned.
C13_TipDiscipline ==
    ListsAllow =>
        /\ Len(log) > 0 =>
              /\ Last.op = "pick_up_tip" => TipsHeldBefore(Len(log)) = 0
              /\ Last.op = "drop_tip" => TipsHeldBefore(Len(log)) = 1
              /\ NeedsTip(Last) => TipsHeldBefore(Len(log)) >= 1
        /\ pc = "done" => TipsHeldBefore(Len(log) + 1) = 0

\* the liquid in the tip after the first n commands of the run, by the
\* volumes the commands ask for (a blow-out empties the tip)
RECURSIVE TipVolume(_)
TipVolume(n) ==
    IF n = 0 THEN 0
    ELSE LET c == log[n]
         IN  CASE c.op = "aspirate" -> TipVolume(n - 1) + c.volume
               [] c.op = "dispense" -> TipVolume(n - 1) - c.volume
               [] c.op \in {"blow_out", "pick_up_tip", "drop_tip"} -> 0
               [] OTHER -> TipVolume(n - 1)

\* C14: in the test script, with the flow rate of the file, the liquid in
\* the p300 tip stays between 0 and 300 uL: no aspirate asks for more than
\* the free capacity of the tip and no dispense for more than the tip holds.
C14_TipVolumeInRange ==
    (script = "test" /\ fr = 30 /\ Len(log) > 0) =>
        /\ Last.op = "aspirate" =>
              Last.volume <= p300_max_volume - TipVolume(Len(log) - 1)
        /\ Last.op = "dispense" => Last.volume <= TipVolume(Len(log) - 1)
        /\ TipVolume(Len(log)) \in 0..p300_max_volume

\* the names that are keys of all four stock maps of the record
StockKeys(c_info) ==
    << DOMAIN c_info.concentrations_stock,
       DOMAIN c_info.concentration_uncertainty_stock,
       DOMAIN c_info.volume_stock,
       DOMAIN c_info.volume_uncertainty_stock >>

\* C15: on an initiated well, whatever set_constituent calls were made (the
\* same name twice included), constituents_number is the length of the
\* constituents list, which is the number of distinct constituents tracked,
\* and each of the four stock maps has exactly the listed names as keys.
C15_ConstituentBookkeeping ==
    Initiated(info) =>
        /\ info.constituents_number = Len(info.constituents)
        /\ Len(info.constituents) = Cardinality(Range(info.constituents))
        /\ \A m \in 1..4 : StockKeys(info)[m] = Range(info.constituents)

\* a move or an aspirate of the test script that goes to or below the top
\* of a reservoir tube
IntoTube(c) ==
    /\ c.op \in {"move_to", "aspirate"}
    /\ c.labware = "reservoir"
    /\ c.z <= 0

\* C16: in the test script every move_to and aspirate into a reservoir tube
\* is at a depth below the tube top between 0 and the tube depth of
\* 55.55 mm: the tip is never sent below the bottom of the tube.
C16_InsideTube ==
    (script = "test" /\ ListsAllow /\ Len(log) > 0 /\ IntoTube(Last)) =>
        /\ 0 - Last.z >= 0
        /\ 0 - Last.z <= TubeDepth

====
